---------------------------- MODULE Spec2Model ----------------------------
(***************************************************************************)
(* PTY runner (src/pty_runner/src/main.rs): a program is run in a PTY, a   *)
(* detached reader thread forwards its output through a channel, the main  *)
(* flow sends scripted input, waits for exit or timeout, drains the        *)
(* channel, filters OSC sequences, feeds the terminal emulator and prints  *)
(* the screen.                                                             *)
(*                                                                         *)
(* Spec           the capture pipeline of main(): main flow, reader        *)
(*                thread, child process and the clock.                     *)
(* FairSpec       Spec with the main flow scheduled and the clock running. *)
(* SpecNormalize  normalize_line_endings on every bounded byte sequence.   *)
(* SpecFilter     filter_osc_sequences on every bounded byte sequence.     *)
(* SpecColor      ansi_to_rgb on every index 0..255.                       *)
(* SpecHex        print_hex_state on bounded screens.                      *)
(***************************************************************************)
EXTENDS Integers, Sequences, FiniteSets, TLC

(***************************************************************************)
(* Bytes the code names.                                                   *)
(***************************************************************************)
ESC == 27
RBRACKET == 93
BEL == 7
BACKSLASH == 92
CR == 13
LF == 10

(***************************************************************************)
(* Durations of main(), in milliseconds.                                   *)
(***************************************************************************)
SettleMs == 100
PollMs == 50
GraceMs == 200
CollectMs == 300
CollectSleepMs == 10
BufSize == 4096

(***************************************************************************)
(* Defaults of --rows and --cols.                                          *)
(***************************************************************************)
DefaultRows == 25
DefaultCols == 80

(***************************************************************************)
(* Bounds of the model.                                                    *)
(***************************************************************************)
\* The clock advances in steps of TickMs milliseconds.
TickMs == 100
\* A byte with no role in the code ('A').
OtherByte == 65
\* Longest output stream the PTY delivers in a run.
MaxStream == 2
\* Longest byte sequence given to the pure functions.
MaxLen == 5
\* Largest screen printed with every arrangement of the sample cells.
MaxRows == 2
MaxCols == 3
MaxTextRows == 2
MaxTextCols == 2
MaxTokens == 2

Min(a, b) == IF a < b THEN a ELSE b
Max(a, b) == IF a > b THEN a ELSE b

SeqsUpTo(S, n) == UNION {[1..k -> S] : k \in 0..n}

IsPrefix(a, b) == Len(a) <= Len(b) /\ SubSeq(b, 1, Len(a)) = a

RECURSIVE Concat(_)
Concat(chunks) ==
    IF chunks = <<>> THEN <<>> ELSE Head(chunks) \o Concat(Tail(chunks))

(***************************************************************************)
(* normalize_line_endings: the while loop over index i (1-based here).     *)
(***************************************************************************)
RECURSIVE normalize_from_always_insert(_, _)
normalize_from_always_insert(data, i) ==
    IF i > Len(data) THEN <<>>
    ELSE IF data[i] = LF
         THEN <<CR, LF>> \o normalize_from_always_insert(data, i + 1)
         ELSE <<data[i]>> \o normalize_from_always_insert(data, i + 1)

RECURSIVE normalize_from_complete_cr(_, _)
normalize_from_complete_cr(data, i) ==
    IF i > Len(data) THEN <<>>
    ELSE IF data[i] = CR /\ i + 1 <= Len(data) /\ data[i + 1] = LF
         THEN <<CR, LF>> \o normalize_from_complete_cr(data, i + 2)
    ELSE IF data[i] = LF \/ data[i] = CR
         THEN <<CR, LF>> \o normalize_from_complete_cr(data, i + 1)
    ELSE <<data[i]>> \o normalize_from_complete_cr(data, i + 1)

RECURSIVE normalize_from(_, _)
normalize_from(data, i) ==
    IF i > Len(data) THEN <<>>
    ELSE IF data[i] = CR /\ i + 1 <= Len(data) /\ data[i + 1] = LF
         THEN <<CR, LF>> \o normalize_from(data, i + 2)
    ELSE IF data[i] = LF
         THEN <<CR, LF>> \o normalize_from(data, i + 1)
    ELSE IF data[i] = CR
         THEN <<CR>> \o normalize_from(data, i + 1)
    ELSE <<data[i]>> \o normalize_from(data, i + 1)

normalize_line_endings_always_insert(data) == normalize_from_always_insert(data, 1)

normalize_line_endings_complete_cr(data) == normalize_from_complete_cr(data, 1)

normalize_line_endings(data) == normalize_from(data, 1)

(***************************************************************************)
(* filter_osc_sequences: the outer loop keeps bytes, the inner loop skips  *)
(* from after ESC ] to the index after the terminator.                     *)
(***************************************************************************)
RECURSIVE skip_osc(_, _)
skip_osc(data, i) ==
    IF i > Len(data) THEN i
    ELSE IF data[i] = BEL THEN i + 1
    ELSE IF i + 1 <= Len(data) /\ data[i] = ESC /\ data[i + 1] = BACKSLASH
         THEN i + 2
    ELSE skip_osc(data, i + 1)

RECURSIVE skip_osc_bel_only(_, _)
skip_osc_bel_only(data, i) ==
    IF i > Len(data) THEN i
    ELSE IF data[i] = BEL THEN i + 1
    ELSE skip_osc_bel_only(data, i + 1)

RECURSIVE filter_from_bel_only(_, _)
filter_from_bel_only(data, i) ==
    IF i > Len(data) THEN <<>>
    ELSE IF i + 1 <= Len(data) /\ data[i] = ESC /\ data[i + 1] = RBRACKET
         THEN filter_from_bel_only(data, skip_osc_bel_only(data, i + 2))
    ELSE <<data[i]>> \o filter_from_bel_only(data, i + 1)

RECURSIVE filter_from(_, _)
filter_from(data, i) ==
    IF i > Len(data) THEN <<>>
    ELSE IF i + 1 <= Len(data) /\ data[i] = ESC /\ data[i + 1] = RBRACKET
         THEN filter_from(data, skip_osc(data, i + 2))
    ELSE <<data[i]>> \o filter_from(data, i + 1)

filter_osc_sequences_bel_only(data) == filter_from_bel_only(data, 1)

filter_osc_sequences(data) == filter_from(data, 1)


(***************************************************************************)
(* ansi_to_rgb, lines 362-397.  idx, n, r, g, b, x and gray are u8: every  *)
(* operation is taken modulo 2^8, and ansi_to_rgb_overflow tells whether   *)
(* an operation left the range of u8 (a panic in a build with overflow     *)
(* checks, a wrapped value otherwise).                                     *)
(***************************************************************************)
U8(v) == v % 256

FitsU8(v) == v >= 0 /\ v <= 255

Palette16 ==
    << <<0, 0, 0>>, <<205, 49, 49>>, <<13, 188, 121>>, <<229, 229, 16>>,
       <<36, 114, 200>>, <<188, 63, 188>>, <<17, 168, 205>>, <<229, 229, 229>>,
       <<102, 102, 102>>, <<241, 76, 76>>, <<35, 209, 139>>, <<245, 245, 67>>,
       <<59, 142, 234>>, <<214, 112, 214>>, <<41, 184, 219>>, <<255, 255, 255>> >>

\* line 388: |x: u8| if x == 0 { 0 } else { 55 + x * 40 }
to_val(x) == IF x = 0 THEN 0 ELSE U8(55 + U8(x * 40))

to_val_overflow(x) == x # 0 /\ (~FitsU8(x * 40) \/ ~FitsU8(55 + U8(x * 40)))

\* a cube whose green component is not reduced modulo 6
ansi_to_rgb_green_unreduced(idx) ==
    IF idx <= 15 THEN Palette16[idx + 1]
    ELSE IF idx <= 231
    THEN LET n == U8(idx - 16)
             r == (n \div 36) % 6
             g == n \div 6
             b == n % 6
         IN  <<to_val(r), to_val(g), to_val(b)>>
    ELSE LET gray == U8(8 + U8(U8(idx - 232) * 10))
         IN  <<gray, gray, gray>>

ansi_to_rgb(idx) ==
    IF idx <= 15 THEN Palette16[idx + 1]
    ELSE IF idx <= 231
    THEN LET n == U8(idx - 16)
             r == (n \div 36) % 6
             g == (n \div 6) % 6
             b == n % 6
         IN  <<to_val(r), to_val(g), to_val(b)>>
    ELSE LET gray == U8(8 + U8(U8(idx - 232) * 10))
         IN  <<gray, gray, gray>>

ansi_to_rgb_overflow(idx) ==
    IF idx <= 15 THEN FALSE
    ELSE IF idx <= 231
    THEN LET n == U8(idx - 16)
         IN  \/ ~FitsU8(idx - 16)
             \/ to_val_overflow((n \div 36) % 6)
             \/ to_val_overflow((n \div 6) % 6)
             \/ to_val_overflow(n % 6)
    ELSE \/ ~FitsU8(idx - 232)
         \/ ~FitsU8(U8(idx - 232) * 10)
         \/ ~FitsU8(8 + U8(U8(idx - 232) * 10))

(***************************************************************************)
(* print_hex_state, lines 292-342.  Text is a sequence of one-character    *)
(* strings.  A Color is <<"Default">>, <<"Idx", i>> or <<"Rgb", r, g, b>>. *)
(* A cell is [contents, fg, bg, bold, italic, underline, inverse], its     *)
(* contents a sequence of code points (empty for an empty cell).           *)
(***************************************************************************)
HexDigits ==
    <<"0", "1", "2", "3", "4", "5", "6", "7", "8", "9", "A", "B", "C", "D", "E", "F">>

RECURSIVE UpperHex(_)
UpperHex(n) ==
    IF n < 16 THEN <<HexDigits[n + 1]>>
    ELSE UpperHex(n \div 16) \o <<HexDigits[(n % 16) + 1]>>

RECURSIVE ZeroPad(_, _)
ZeroPad(text, width) ==
    IF Len(text) >= width THEN text ELSE ZeroPad(<<"0">> \o text, width)

\* {:X} without a width: no padding
FormatHex_unpadded(n, width) == UpperHex(n)

\* {:0widthX}: upper-case hex digits, zero-padded to at least width
FormatHex(n, width) == ZeroPad(UpperHex(n), width)

Space == 32

\* line 300: cell.contents().chars().next().unwrap_or(' ') as u32
cell_codepoint(cell) ==
    IF cell.contents = <<>> THEN Space ELSE Head(cell.contents)

\* lines 304-308 and 311-315: the colour match, with its Default
resolve_color(color, default) ==
    IF color[1] = "Rgb" THEN <<color[2], color[3], color[4]>>
    ELSE IF color[1] = "Idx" THEN ansi_to_rgb(color[2])
    ELSE default

DefaultFg == <<240, 240, 240>>
DefaultBg == <<0, 0, 0>>

\* the attribute byte without the bold bit
cell_attrs_no_bold(cell) ==
    (IF cell.italic THEN 2 ELSE 0)
    + (IF cell.underline THEN 4 ELSE 0) + (IF cell.inverse THEN 8 ELSE 0)

\* lines 318-333: the attribute byte
cell_attrs(cell) ==
    (IF cell.bold THEN 1 ELSE 0) + (IF cell.italic THEN 2 ELSE 0)
    + (IF cell.underline THEN 4 ELSE 0) + (IF cell.inverse THEN 8 ELSE 0)

\* lines 336-339: print!("{:08X}{:02X}{:02X}{:02X}{:02X}{:02X}{:02X}{:02X}", ..)
print_cell(cell) ==
    LET fg == resolve_color(cell.fg, DefaultFg)
        bg == resolve_color(cell.bg, DefaultBg)
    IN  FormatHex(cell_codepoint(cell), 8)
        \o FormatHex(fg[1], 2) \o FormatHex(fg[2], 2) \o FormatHex(fg[3], 2)
        \o FormatHex(bg[1], 2) \o FormatHex(bg[2], 2) \o FormatHex(bg[3], 2)
        \o FormatHex(cell_attrs(cell), 2)

(***************************************************************************)
(* State.  An Option is a sequence of length 0 (None) or 1 (Some).         *)
(***************************************************************************)
VARIABLES
    pc,              \* position of the main flow in main()
    cause,           \* which ? made main return an error ("none" if none)
    exitCode,        \* exit code of the process, -1 while it runs
    timeout,         \* args.timeout in ms, 0 until main reads it (line 212)
    format,          \* args.output, "" until main reads it (line 277)
    child,           \* "none", "running", "exited", "killed"
    willExit,        \* whether the program run ever exits by itself
    kills,           \* number of child.kill() calls
    loopExit,        \* how the wait loop was left
    keyboard_input,  \* Option: bytes of the keyboard input file, None once moved
    stdin_content,   \* Option: bytes of the stdin file, None out of its scope
    written,         \* bytes written to the PTY writer, in order
    started,         \* start (line 213) has been taken
    elapsed,         \* start.elapsed() in ms, capped above timeout, while
                     \* the wait loop runs (nothing reads it later); else 0
    sleepLeft,       \* ms left of the current thread::sleep
    collectLeft,     \* ms left until collect_deadline, while the collect
                     \* loop runs (nothing reads it later)
    stream,          \* the bytes the PTY master delivers in this run
    rpos,            \* number of bytes of stream the reader has read
    rpc,             \* reader thread: "idle", "read", "send", "done"
    rbuf,            \* buf[..n] of the last read
    chan,            \* chunks in the mpsc channel
    readLog,         \* the chunks the reader has read, concatenated in read order
    output,          \* the capture buffer
    filtered,        \* filter_osc_sequences(&output)
    parserInput,     \* bytes given to parser.process
    stdout,          \* what was written to stdout: <<format, bytes>>
    data,            \* input of a pure function
    res1,            \* its result
    res2,            \* the result of applying it to res1
    ppc,             \* position of the pure-function run
    idx,             \* argument of ansi_to_rgb
    rgb,             \* its result
    overflow,        \* whether its u8 arithmetic overflowed
    rows,            \* args.rows
    cols,            \* args.cols
    screen,          \* the cells of parser.screen(), by <<row, col>>
    row,             \* loop variable of print_hex_state
    col,             \* loop variable of print_hex_state
    printed,         \* the text print_hex_state has printed
    sentLog,         \* history: the chunks sent on the channel, concatenated
    chanLate,        \* history: for each chunk in chan, whether it was sent
                     \* after collect_deadline
    taken,           \* history: the chunks try_recv returned, in order, each
                     \* with its chanLate mark
    emu              \* the terminal emulator: parser state, active style and
                     \* the number of bytes it has processed

ctlVars == <<pc, cause, exitCode>>
cfgVars == <<timeout, format, willExit, stream>>
envVars == <<willExit, stream>>
childVars == <<child, kills, loopExit>>
inVars == <<keyboard_input, stdin_content, written>>
timeVars == <<started, elapsed, sleepLeft, collectLeft>>
readerVars == <<rpos, rpc, rbuf, chan, readLog>>
outVars == <<output, filtered, parserInput, stdout>>
pureVars == <<data, res1, res2, ppc, idx, rgb, overflow, rows, cols, screen,
              row, col, printed>>
histVars == <<sentLog, chanLate, taken>>
vars == <<ctlVars, cfgVars, childVars, inVars, timeVars, readerVars, outVars,
          pureVars, histVars, emu>>

Timeouts == {0, 100}
Formats == {"hex", "text", "raw", "other"}
StreamBytes == {ESC, RBRACKET}
FileContents == {<<ESC, RBRACKET, LF>>}

HistIdle ==
    /\ sentLog = <<>> /\ chanLate = <<>> /\ taken = <<>>

FilterIdle ==
    /\ data = <<>> /\ res1 = <<>> /\ res2 = <<>>

ColorIdle ==
    /\ idx = 0 /\ rgb = <<>> /\ overflow = FALSE

HexIdle ==
    /\ rows = 0 /\ cols = 0 /\ screen = <<>> /\ row = 0 /\ col = 0
    /\ printed = <<>>

EmuIdle == emu = <<>>

PureIdle ==
    /\ FilterIdle /\ ColorIdle /\ HexIdle /\ EmuIdle /\ ppc = "off"

MainIdle ==
    /\ pc = "off" /\ cause = "none" /\ exitCode = -1
    /\ timeout = 0 /\ format = "hex" /\ willExit = FALSE /\ stream = <<>>
    /\ child = "none" /\ kills = 0 /\ loopExit = "none"
    /\ keyboard_input = <<>> /\ stdin_content = <<>> /\ written = <<>>
    /\ started = FALSE /\ elapsed = 0 /\ sleepLeft = 0 /\ collectLeft = 0
    /\ rpos = 0 /\ rpc = "idle" /\ rbuf = <<>> /\ chan = <<>> /\ readLog = <<>>
    /\ output = <<>> /\ filtered = <<>> /\ parserInput = <<>> /\ stdout = <<>>
    /\ HistIdle

(***************************************************************************)
(* main(), lines 115-288.  Args::parse has run; the program, its output    *)
(* and the options are any of the bounded values.                          *)
(***************************************************************************)
Init ==
    /\ pc = "openpty" /\ cause = "none" /\ exitCode = -1
    /\ timeout = 0
    /\ format = ""
    /\ willExit \in BOOLEAN
    /\ stream \in SeqsUpTo(StreamBytes, MaxStream)
    /\ child = "none" /\ kills = 0 /\ loopExit = "none"
    /\ keyboard_input = <<>> /\ stdin_content = <<>> /\ written = <<>>
    /\ started = FALSE /\ elapsed = 0 /\ sleepLeft = 0 /\ collectLeft = 0
    /\ rpos = 0 /\ rpc = "idle" /\ rbuf = <<>> /\ chan = <<>> /\ readLog = <<>>
    /\ output = <<>> /\ filtered = <<>> /\ parserInput = <<>> /\ stdout = <<>>
    /\ HistIdle
    /\ PureIdle

\* A ? that returns the error from main: the process ends with a failure code.
Abort(c) ==
    /\ pc' = "aborted" /\ cause' = c /\ exitCode' = 1

Goto(p) ==
    /\ pc' = p /\ UNCHANGED <<cause, exitCode>>

\* After drop(writer); drop(master) of lines 252-253.
MasterDropped == pc \in {"filter", "process", "print", "exit", "exited"}

\* The process is gone after std::process::exit.
\* Instant::now() >= collect_deadline: the deadline of line 239 is set and
\* its 300 ms are over.
DeadlinePassed ==
    /\ pc \in {"collect_check", "collect_recv", "collect_sleep", "drop",
               "filter", "process", "print", "exit"}
    /\ collectLeft = 0

ProcessAlive == pc \notin {"off", "exited"}

\* lines 122-132: openpty(...).context(..)?
OpenPty ==
    /\ pc = "openpty"
    /\ \/ Goto("spawn")
       \/ Abort("openpty")
    /\ UNCHANGED <<cfgVars, childVars, inVars, timeVars, readerVars, outVars,
                   pureVars, histVars, emu>>

\* lines 137-146: spawn_command(cmd).context(..)?
SpawnChild ==
    /\ pc = "spawn"
    /\ \/ /\ Goto("read_kb")
          /\ child' = "running"
       \/ /\ Abort("spawn")
          /\ UNCHANGED child
    /\ UNCHANGED <<cfgVars, kills, loopExit, inVars, timeVars, readerVars,
                   outVars, pureVars, histVars, emu>>

\* lines 152-159: keyboard_input = Some(fs::read(kb_path)?) or None
ReadKeyboard ==
    /\ pc = "read_kb"
    /\ \/ /\ Goto("clone_reader")
          /\ UNCHANGED keyboard_input
       \/ \E bytes \in FileContents :
             /\ Goto("clone_reader")
             /\ keyboard_input' = <<bytes>>
       \/ /\ Abort("kb_read")
          /\ UNCHANGED keyboard_input
    /\ UNCHANGED <<cfgVars, childVars, stdin_content, written, timeVars,
                   readerVars, outVars, pureVars, histVars, emu>>

\* lines 165-167: try_clone_reader().context(..)?
CloneReader ==
    /\ pc = "clone_reader"
    /\ \/ Goto("take_writer")
       \/ Abort("clone_reader")
    /\ UNCHANGED <<cfgVars, childVars, inVars, timeVars, readerVars, outVars,
                   pureVars, histVars, emu>>

\* lines 170-172: take_writer().context(..)?
TakeWriter ==
    /\ pc = "take_writer"
    /\ \/ Goto("spawn_reader")
       \/ Abort("take_writer")
    /\ UNCHANGED <<cfgVars, childVars, inVars, timeVars, readerVars, outVars,
                   pureVars, histVars, emu>>

\* lines 175-191: the channel and thread::spawn; the handle is never joined
SpawnReader ==
    /\ pc = "spawn_reader"
    /\ Goto("stdin_read")
    /\ rpc' = "read"
    /\ UNCHANGED <<cfgVars, childVars, inVars, timeVars, rpos, rbuf, chan,
                   readLog, outVars, pureVars, histVars, emu>>

\* lines 194-195: if let Some(stdin_path) ... fs::read(stdin_path)?
ReadStdin ==
    /\ pc = "stdin_read"
    /\ \/ /\ Goto("settle")
          /\ UNCHANGED stdin_content
       \/ \E bytes \in FileContents :
             /\ Goto("stdin_write")
             /\ stdin_content' = <<bytes>>
       \/ /\ Abort("stdin_read")
          /\ UNCHANGED stdin_content
    /\ UNCHANGED <<cfgVars, childVars, keyboard_input, written, timeVars,
                   readerVars, outVars, pureVars, histVars, emu>>

\* writer.write_all(bytes)?: all of bytes is written, or a proper prefix is
\* and the error is returned.  Writing nothing cannot fail.
WriteAll(bytes, next, why) ==
    \/ /\ Goto(next)
       /\ written' = written \o bytes
    \/ \E k \in 0..(Len(bytes) - 1) :
          /\ Abort(why)
          /\ written' = written \o SubSeq(bytes, 1, k)

\* lines 197-198: write the normalized stdin content
WriteStdin ==
    /\ pc = "stdin_write"
    /\ WriteAll(normalize_line_endings(stdin_content[1]), "settle", "stdin_write")
    /\ stdin_content' = <<>>
    /\ UNCHANGED <<cfgVars, childVars, keyboard_input, timeVars,
                   readerVars, outVars, pureVars, histVars, emu>>

\* thread::sleep(ms) begins
Sleep(ms, during) ==
    /\ Goto(during)
    /\ sleepLeft' = ms
    /\ UNCHANGED <<started, elapsed, collectLeft>>

\* thread::sleep returns once its duration has passed
Wake(during, next) ==
    /\ pc = during
    /\ sleepLeft = 0
    /\ Goto(next)
    /\ UNCHANGED timeVars

\* line 202: thread::sleep(100 ms)
Settle ==
    /\ pc = "settle"
    /\ Sleep(SettleMs, "settle_sleep")
    /\ UNCHANGED <<cfgVars, childVars, inVars, readerVars, outVars,
                   pureVars, histVars, emu>>

SettleDone ==
    /\ Wake("settle_sleep", "kb_write")
    /\ UNCHANGED <<cfgVars, childVars, inVars, readerVars, outVars,
                   pureVars, histVars, emu>>

\* the keyboard input written as read, not normalized
WriteKeyboard_raw ==
    /\ pc = "kb_write"
    /\ IF keyboard_input = <<>>
       THEN Goto("start") /\ UNCHANGED written
       ELSE WriteAll(keyboard_input[1], "start", "kb_write")
    /\ keyboard_input' = <<>>
    /\ UNCHANGED <<cfgVars, childVars, stdin_content, timeVars,
                   readerVars, outVars, pureVars, histVars, emu>>

\* lines 205-209: write the normalized keyboard input, if any
WriteKeyboard ==
    /\ pc = "kb_write"
    /\ IF keyboard_input = <<>>
       THEN Goto("start") /\ UNCHANGED written
       ELSE WriteAll(normalize_line_endings(keyboard_input[1]), "start", "kb_write")
    /\ keyboard_input' = <<>>
    /\ UNCHANGED <<cfgVars, childVars, stdin_content, timeVars,
                   readerVars, outVars, pureVars, histVars, emu>>

\* lines 212-213: start = Instant::now()
StartWait ==
    /\ pc = "start"
    /\ Goto("poll")
    /\ timeout' \in Timeouts
    /\ started' = TRUE
    /\ elapsed' = 0
    /\ UNCHANGED <<format, envVars, childVars, inVars, sleepLeft, collectLeft,
                   readerVars, outVars, pureVars, histVars, emu>>

\* lines 216-220: try_wait() is Ok(Some(status)): break
PollExited ==
    /\ pc = "poll"
    /\ child = "exited"
    /\ Goto("grace")
    /\ loopExit' = "exited"
    /\ elapsed' = 0
    /\ UNCHANGED <<cfgVars, child, kills, inVars, started, sleepLeft,
                   collectLeft, readerVars, outVars, pureVars, histVars, emu>>

\* a poll that never compares elapsed with timeout
PollRunning_never_times_out ==
    /\ pc = "poll"
    /\ child = "running"
    /\ Sleep(PollMs, "poll_sleep")
    /\ UNCHANGED <<cfgVars, childVars, inVars, readerVars, outVars,
                   pureVars, histVars, emu>>

\* the timeout taken as reached when elapsed equals it
PollRunning_at_timeout ==
    /\ pc = "poll"
    /\ child = "running"
    /\ IF elapsed >= timeout
       THEN /\ Goto("kill")
            /\ UNCHANGED timeVars
       ELSE Sleep(PollMs, "poll_sleep")
    /\ UNCHANGED <<cfgVars, childVars, inVars, readerVars, outVars, pureVars,
                   histVars, emu>>

\* lines 221-229: try_wait() is Ok(None): kill after the timeout, else sleep
PollRunning ==
    /\ pc = "poll"
    /\ child = "running"
    /\ IF elapsed > timeout
       THEN /\ Goto("kill")
            /\ UNCHANGED timeVars
       ELSE Sleep(PollMs, "poll_sleep")
    /\ UNCHANGED <<cfgVars, childVars, inVars, readerVars, outVars,
                   pureVars, histVars, emu>>

\* line 230: try_wait() is Err(_): break
PollError ==
    /\ pc = "poll"
    /\ Goto("grace")
    /\ loopExit' = "error"
    /\ elapsed' = 0
    /\ UNCHANGED <<cfgVars, child, kills, inVars, started, sleepLeft,
                   collectLeft, readerVars, outVars, pureVars, histVars, emu>>

\* the loop left on timeout without child.kill()
Kill_without_kill ==
    /\ pc = "kill"
    /\ Goto("grace")
    /\ loopExit' = "timeout"
    /\ elapsed' = 0
    /\ UNCHANGED <<cfgVars, child, kills, inVars, started, sleepLeft, collectLeft,
                   readerVars, outVars, pureVars, histVars, emu>>

\* lines 225-226: let _ = child.kill(); break.  A child that has exited
\* since the poll stays exited and the error of kill is dropped.
Kill ==
    /\ pc = "kill"
    /\ Goto("grace")
    /\ kills' = kills + 1
    /\ child' = IF child = "running" THEN "killed" ELSE child
    /\ loopExit' = "timeout"
    /\ elapsed' = 0
    /\ UNCHANGED <<cfgVars, inVars, started, sleepLeft, collectLeft,
                   readerVars, outVars, pureVars, histVars, emu>>

PollSleepDone ==
    /\ Wake("poll_sleep", "poll")
    /\ UNCHANGED <<cfgVars, childVars, inVars, readerVars, outVars,
                   pureVars, histVars, emu>>

\* line 235: thread::sleep(200 ms)
Grace ==
    /\ pc = "grace"
    /\ Sleep(GraceMs, "grace_sleep")
    /\ UNCHANGED <<cfgVars, childVars, inVars, readerVars, outVars,
                   pureVars, histVars, emu>>

GraceDone ==
    /\ Wake("grace_sleep", "collect_init")
    /\ UNCHANGED <<cfgVars, childVars, inVars, readerVars, outVars,
                   pureVars, histVars, emu>>

\* lines 238-239: output = Vec::new(); collect_deadline = now + 300 ms
CollectInit ==
    /\ pc = "collect_init"
    /\ Goto("collect_check")
    /\ output' = <<>>
    /\ collectLeft' = CollectMs
    /\ UNCHANGED <<cfgVars, childVars, inVars, started, elapsed, sleepLeft,
                   readerVars, filtered, parserInput, stdout,
                   pureVars, histVars, emu>>

\* a collect loop without a deadline
CollectCheck_no_deadline ==
    /\ pc = "collect_check"
    /\ Goto("collect_recv")
    /\ UNCHANGED <<cfgVars, childVars, inVars, timeVars, readerVars, outVars,
                   pureVars, histVars, emu>>

\* line 240: while Instant::now() < collect_deadline
CollectCheck ==
    /\ pc = "collect_check"
    /\ IF collectLeft > 0 THEN Goto("collect_recv") ELSE Goto("drop")
    /\ UNCHANGED <<cfgVars, childVars, inVars, timeVars, readerVars, outVars,
                   pureVars, histVars, emu>>

\* a chunk put in front of the capture buffer
CollectChunk_prepend ==
    /\ pc = "collect_recv"
    /\ chan # <<>>
    /\ Goto("collect_check")
    /\ output' = Head(chan) \o output
    /\ chan' = Tail(chan)
    /\ taken' = Append(taken, [bytes |-> Head(chan), late |-> Head(chanLate)])
    /\ chanLate' = Tail(chanLate)
    /\ UNCHANGED <<cfgVars, childVars, inVars, timeVars, rpos, rpc, rbuf,
                   readLog, filtered, parserInput, stdout,
                   pureVars, sentLog, emu>>

\* lines 241-242: rx.try_recv() is Ok(chunk): output.extend(chunk)
CollectChunk ==
    /\ pc = "collect_recv"
    /\ chan # <<>>
    /\ Goto("collect_check")
    /\ output' = output \o Head(chan)
    /\ chan' = Tail(chan)
    /\ taken' = Append(taken, [bytes |-> Head(chan), late |-> Head(chanLate)])
    /\ chanLate' = Tail(chanLate)
    /\ UNCHANGED <<cfgVars, childVars, inVars, timeVars, rpos, rpc, rbuf,
                   readLog, filtered, parserInput, stdout,
                   pureVars, sentLog, emu>>

\* lines 243-246: rx.try_recv() is Empty: thread::sleep(10 ms)
CollectEmpty ==
    /\ pc = "collect_recv"
    /\ chan = <<>>
    /\ rpc # "done"
    /\ Sleep(CollectSleepMs, "collect_sleep")
    /\ UNCHANGED <<cfgVars, childVars, inVars, readerVars, outVars,
                   pureVars, histVars, emu>>

CollectSleepDone ==
    /\ Wake("collect_sleep", "collect_check")
    /\ UNCHANGED <<cfgVars, childVars, inVars, readerVars, outVars,
                   pureVars, histVars, emu>>

\* the loop left as soon as the reader is done, chunks still in the channel
CollectDisconnected_nonempty ==
    /\ pc = "collect_recv"
    /\ rpc = "done"
    /\ Goto("drop")
    /\ UNCHANGED <<cfgVars, childVars, inVars, timeVars, readerVars, outVars,
                   pureVars, histVars, emu>>

\* line 247: rx.try_recv() is Disconnected (the sender is dropped and the
\* channel is empty): break
CollectDisconnected ==
    /\ pc = "collect_recv"
    /\ chan = <<>>
    /\ rpc = "done"
    /\ Goto("drop")
    /\ UNCHANGED <<cfgVars, childVars, inVars, timeVars, readerVars, outVars,
                   pureVars, histVars, emu>>

\* lines 252-253: drop(writer); drop(master); the reader is not joined
DropMaster ==
    /\ pc = "drop"
    /\ Goto("filter")
    /\ UNCHANGED <<cfgVars, childVars, inVars, timeVars, readerVars, outVars,
                   pureVars, histVars, emu>>

\* each chunk filtered by itself
FilterOutput_per_chunk ==
    /\ pc = "filter"
    /\ Goto("process")
    /\ filtered' = Concat([i \in 1..Len(taken) |-> filter_osc_sequences(taken[i].bytes)])
    /\ UNCHANGED <<cfgVars, childVars, inVars, timeVars, readerVars, output,
                   parserInput, stdout, pureVars, histVars, emu>>

\* line 270: filtered = filter_osc_sequences(&output)
FilterOutput ==
    /\ pc = "filter"
    /\ Goto("process")
    /\ filtered' = filter_osc_sequences(output)
    /\ UNCHANGED <<cfgVars, childVars, inVars, timeVars, readerVars, output,
                   parserInput, stdout, pureVars, histVars, emu>>

\* line 274: parser.process(&filtered)
ProcessOutput ==
    /\ pc = "process"
    /\ Goto("print")
    /\ parserInput' = parserInput \o filtered
    /\ UNCHANGED <<cfgVars, childVars, inVars, timeVars, readerVars, output,
                   filtered, stdout, pureVars, histVars, emu>>

\* the raw format writing the filtered bytes
PrintState_raw_filtered ==
    /\ pc = "print"
    /\ format' \in Formats
    /\ \/ /\ format' \in {"hex", "text"}
          /\ Goto("exit")
          /\ stdout' = <<format', parserInput>>
       \/ /\ format' = "raw"
          /\ \/ /\ Goto("exit")
                /\ stdout' = <<format', filtered>>
             \/ \E k \in 0..(Len(filtered) - 1) :
                   /\ Abort("stdout_write")
                   /\ stdout' = <<format', SubSeq(filtered, 1, k)>>
       \/ /\ format' \notin {"hex", "text", "raw"}
          /\ Goto("exit")
          /\ UNCHANGED stdout
    /\ UNCHANGED <<timeout, envVars, childVars, inVars, timeVars, readerVars, output,
                   filtered, parserInput, pureVars, histVars, emu>>

\* lines 277-284: the screen (a function of the bytes the parser processed)
\* in hex or text, or the captured bytes with write_all(&output)?; any other
\* format prints nothing.
PrintState ==
    /\ pc = "print"
    /\ format' \in Formats
    /\ \/ /\ format' \in {"hex", "text"}
          /\ Goto("exit")
          /\ stdout' = <<format', parserInput>>
       \/ /\ format' = "raw"
          /\ \/ /\ Goto("exit")
                /\ stdout' = <<format', output>>
             \/ \E k \in 0..(Len(output) - 1) :
                   /\ Abort("stdout_write")
                   /\ stdout' = <<format', SubSeq(output, 1, k)>>
       \/ /\ format' \notin {"hex", "text", "raw"}
          /\ Goto("exit")
          /\ UNCHANGED stdout
    /\ UNCHANGED <<timeout, envVars, childVars, inVars, timeVars, readerVars, output,
                   filtered, parserInput, pureVars, histVars, emu>>

\* line 287: std::process::exit(0)
Exit ==
    /\ pc = "exit"
    /\ pc' = "exited"
    /\ exitCode' = 0
    /\ UNCHANGED <<cause, cfgVars, childVars, inVars, timeVars, readerVars,
                   outVars, pureVars, histVars, emu>>

(***************************************************************************)
(* The reader thread, lines 178-191.                                       *)
(***************************************************************************)
\* lines 181, 183: reader.read(&mut buf) is Ok(n), n > 0
ReaderRead ==
    /\ ProcessAlive
    /\ rpc = "read"
    /\ rpos < Len(stream)
    /\ \E n \in 1..Min(BufSize, Len(stream) - rpos) :
          /\ rbuf' = SubSeq(stream, rpos + 1, rpos + n)
          /\ rpos' = rpos + n
          /\ readLog' = readLog \o SubSeq(stream, rpos + 1, rpos + n)
    /\ rpc' = "send"
    /\ UNCHANGED <<ctlVars, cfgVars, childVars, inVars, timeVars, chan,
                   outVars, pureVars, histVars, emu>>

\* lines 184-186: tx.send(buf[..n].to_vec()); an error (the receiver was
\* dropped when main returned) ends the thread
ReaderSend ==
    /\ ProcessAlive
    /\ rpc = "send"
    /\ IF pc = "aborted"
       THEN /\ rpc' = "done"
            /\ UNCHANGED <<chan, chanLate, sentLog>>
       ELSE /\ rpc' = "read"
            /\ chan' = Append(chan, rbuf)
            /\ chanLate' = Append(chanLate, DeadlinePassed)
            /\ sentLog' = sentLog \o rbuf
    /\ UNCHANGED <<ctlVars, cfgVars, childVars, inVars, timeVars, rpos, rbuf,
                   readLog, outVars, pureVars, taken, emu>>

\* line 182: Ok(0), end of stream: everything was read and the PTY is closed
ReaderEof ==
    /\ ProcessAlive
    /\ rpc = "read"
    /\ rpos = Len(stream)
    /\ child \in {"exited", "killed"} \/ MasterDropped
    /\ rpc' = "done"
    /\ UNCHANGED <<ctlVars, cfgVars, childVars, inVars, timeVars, rpos, rbuf,
                   chan, readLog, outVars, pureVars, histVars, emu>>

\* line 188: Err(_): break
ReaderErr ==
    /\ ProcessAlive
    /\ rpc = "read"
    /\ rpc' = "done"
    /\ UNCHANGED <<ctlVars, cfgVars, childVars, inVars, timeVars, rpos, rbuf,
                   chan, readLog, outVars, pureVars, histVars, emu>>

(***************************************************************************)
(* The environment: the program run and the clock.                         *)
(***************************************************************************)
ChildExit ==
    /\ ProcessAlive
    /\ child = "running"
    /\ willExit
    /\ child' = "exited"
    /\ UNCHANGED <<ctlVars, cfgVars, kills, loopExit, inVars, timeVars,
                   readerVars, outVars, pureVars, histVars, emu>>

Tick ==
    /\ pc \notin {"off", "exited", "aborted"}
    /\ sleepLeft' = Max(0, sleepLeft - TickMs)
    /\ collectLeft' = IF pc \in {"collect_check", "collect_recv", "collect_sleep"}
                      THEN Max(0, collectLeft - TickMs)
                      ELSE collectLeft
    /\ elapsed' = IF pc \in {"poll", "poll_sleep", "kill"}
                  THEN Min(elapsed + TickMs, timeout + TickMs)
                  ELSE elapsed
    /\ <<sleepLeft', collectLeft', elapsed'>> # <<sleepLeft, collectLeft, elapsed>>
    /\ UNCHANGED <<ctlVars, cfgVars, childVars, inVars, started, readerVars,
                   outVars, pureVars, histVars, emu>>

MainStep ==
    \/ OpenPty \/ SpawnChild \/ ReadKeyboard \/ CloneReader \/ TakeWriter
    \/ SpawnReader \/ ReadStdin \/ WriteStdin \/ Settle \/ SettleDone
    \/ WriteKeyboard \/ StartWait \/ PollExited \/ PollRunning \/ PollError
    \/ Kill \/ PollSleepDone \/ Grace \/ GraceDone \/ CollectInit
    \/ CollectCheck \/ CollectChunk \/ CollectEmpty \/ CollectSleepDone
    \/ CollectDisconnected \/ DropMaster \/ FilterOutput \/ ProcessOutput
    \/ PrintState \/ Exit

ReaderStep == ReaderRead \/ ReaderSend \/ ReaderEof \/ ReaderErr

Next == MainStep \/ ReaderStep \/ ChildExit \/ Tick

Spec == Init /\ [][Next]_vars

\* The main thread is scheduled and time passes; nothing is assumed of the
\* reader thread (its read may block for ever) or of the program run.
FairSpec == Spec /\ WF_vars(MainStep) /\ WF_vars(Tick)

(***************************************************************************)
(* normalize_line_endings applied to any byte sequence, twice.             *)
(***************************************************************************)
NormBytes == {CR, LF, OtherByte}

InitNormalize ==
    /\ MainIdle /\ EmuIdle /\ ColorIdle /\ HexIdle
    /\ data \in SeqsUpTo(NormBytes, MaxLen)
    /\ res1 = <<>> /\ res2 = <<>> /\ ppc = "start"

NormalizeOnce ==
    /\ ppc = "start"
    /\ res1' = normalize_line_endings(data)
    /\ ppc' = "once"
    /\ UNCHANGED <<ctlVars, cfgVars, childVars, inVars, timeVars, readerVars,
                   outVars, histVars, emu, data, res2, idx, rgb, overflow, rows, cols,
                   screen, row, col, printed>>

NormalizeTwice ==
    /\ ppc = "once"
    /\ res2' = normalize_line_endings(res1)
    /\ ppc' = "twice"
    /\ UNCHANGED <<ctlVars, cfgVars, childVars, inVars, timeVars, readerVars,
                   outVars, histVars, emu, data, res1, idx, rgb, overflow, rows, cols,
                   screen, row, col, printed>>

NextNormalize == NormalizeOnce \/ NormalizeTwice

SpecNormalize == InitNormalize /\ [][NextNormalize]_vars

(***************************************************************************)
(* filter_osc_sequences applied to any byte sequence, twice.               *)
(***************************************************************************)
OscBytes == {ESC, RBRACKET, BEL, BACKSLASH, OtherByte}

InitFilter ==
    /\ MainIdle /\ EmuIdle /\ ColorIdle /\ HexIdle
    /\ data \in SeqsUpTo(OscBytes, MaxLen)
    /\ res1 = <<>> /\ res2 = <<>> /\ ppc = "start"

FilterOnce ==
    /\ ppc = "start"
    /\ res1' = filter_osc_sequences(data)
    /\ ppc' = "once"
    /\ UNCHANGED <<ctlVars, cfgVars, childVars, inVars, timeVars, readerVars,
                   outVars, histVars, emu, data, res2, idx, rgb, overflow, rows, cols,
                   screen, row, col, printed>>

FilterTwice ==
    /\ ppc = "once"
    /\ res2' = filter_osc_sequences(res1)
    /\ ppc' = "twice"
    /\ UNCHANGED <<ctlVars, cfgVars, childVars, inVars, timeVars, readerVars,
                   outVars, histVars, emu, data, res1, idx, rgb, overflow, rows, cols,
                   screen, row, col, printed>>

NextFilter == FilterOnce \/ FilterTwice

SpecFilter == InitFilter /\ [][NextFilter]_vars

(***************************************************************************)
(* ansi_to_rgb applied to every u8.                                        *)
(***************************************************************************)
InitColor ==
    /\ MainIdle /\ EmuIdle /\ FilterIdle /\ HexIdle
    /\ idx \in 0..255
    /\ rgb = <<>> /\ overflow = FALSE /\ ppc = "start"

AnsiToRgb ==
    /\ ppc = "start"
    /\ rgb' = ansi_to_rgb(idx)
    /\ overflow' = ansi_to_rgb_overflow(idx)
    /\ ppc' = "rgb_done"
    /\ UNCHANGED <<ctlVars, cfgVars, childVars, inVars, timeVars, readerVars,
                   outVars, histVars, emu, data, res1, res2, idx, rows, cols, screen, row,
                   col, printed>>

NextColor == AnsiToRgb

SpecColor == InitColor /\ [][NextColor]_vars

(***************************************************************************)
(* print_hex_state on a screen of the emulator.  The screen is the vt100   *)
(* crate's; its cells are any arrangement of the sample cells below.       *)
(***************************************************************************)
Cell(contents, fg, bg, bold, italic, underline, inverse) ==
    [contents |-> contents, fg |-> fg, bg |-> bg, bold |-> bold,
     italic |-> italic, underline |-> underline, inverse |-> inverse]

SampleCells ==
    << Cell(<<>>, <<"Default">>, <<"Default">>, FALSE, FALSE, FALSE, FALSE),
       Cell(<<88>>, <<"Idx", 1>>, <<"Default">>, TRUE, FALSE, FALSE, FALSE),
       Cell(<<65>>, <<"Rgb", 1, 2, 3>>, <<"Idx", 196>>, FALSE, TRUE, TRUE, FALSE),
       Cell(<<128512>>, <<"Idx", 244>>, <<"Rgb", 255, 255, 255>>,
            FALSE, FALSE, FALSE, TRUE),
       Cell(<<1114111>>, <<"Default">>, <<"Idx", 9>>, TRUE, TRUE, TRUE, TRUE),
       Cell(<<101, 769>>, <<"Idx", 255>>, <<"Idx", 16>>, FALSE, FALSE, TRUE, FALSE) >>

Positions(r, c) == (0..(r - 1)) \X (0..(c - 1))

\* The screen of r rows and c columns whose cells go through the sample
\* cells in row-major order, starting at sample number shift.
ScreenOf(r, c, shift) ==
    [p \in Positions(r, c) |->
        SampleCells[((shift + p[1] * c + p[2]) % Len(SampleCells)) + 1]]

InitHex ==
    /\ MainIdle /\ EmuIdle /\ FilterIdle /\ ColorIdle
    /\ \/ /\ rows \in 0..MaxRows
          /\ cols \in 0..MaxCols
          /\ \E shift \in 0..(Len(SampleCells) - 1) :
                screen = ScreenOf(rows, cols, shift)
       \/ /\ rows = DefaultRows
          /\ cols = DefaultCols
          /\ screen = ScreenOf(rows, cols, 0)
    /\ row = 0 /\ col = 0 /\ printed = <<>> /\ ppc = "hex"

\* lines 295-340: one iteration of the inner loop
PrintHexCell ==
    /\ ppc = "hex"
    /\ row < rows
    /\ col < cols
    /\ printed' = printed \o print_cell(screen[<<row, col>>])
    /\ IF col + 1 < cols
       THEN col' = col + 1 /\ UNCHANGED row
       ELSE col' = 0 /\ row' = row + 1
    /\ UNCHANGED <<ctlVars, cfgVars, childVars, inVars, timeVars, readerVars,
                   outVars, histVars, emu, data, res1, res2, ppc, idx, rgb, overflow, rows,
                   cols, screen>>

\* lines 295-296: the loops are over
PrintHexDone ==
    /\ ppc = "hex"
    /\ row >= rows \/ cols = 0
    /\ ppc' = "hex_done"
    /\ UNCHANGED <<ctlVars, cfgVars, childVars, inVars, timeVars, readerVars,
                   outVars, histVars, emu, data, res1, res2, idx, rgb, overflow, rows, cols,
                   screen, row, col, printed>>

NextHex == PrintHexCell \/ PrintHexDone

SpecHex == InitHex /\ [][NextHex]_vars

(***************************************************************************)
(* print_text_state, lines 345-359, on every small screen of empty cells,  *)
(* letters and no-break spaces.  Here the text printed is a sequence of    *)
(* code points.                                                            *)
(***************************************************************************)
\* char::is_whitespace, the Unicode property White_Space that str::trim_end
\* (line 356) goes by
WhiteSpace ==
    (9..13) \cup {32, 133, 160, 5760} \cup (8192..8202)
    \cup {8232, 8233, 8239, 8287, 12288}

\* a trim_end that removes U+0020 only
RECURSIVE trim_end_spaces_only(_)
trim_end_spaces_only(line) ==
    IF line # <<>> /\ line[Len(line)] = Space
    THEN trim_end_spaces_only(SubSeq(line, 1, Len(line) - 1))
    ELSE line

\* line 356: line.trim_end()
RECURSIVE trim_end(_)
trim_end(line) ==
    IF line # <<>> /\ line[Len(line)] \in WhiteSpace
    THEN trim_end(SubSeq(line, 1, Len(line) - 1))
    ELSE line

\* lines 349-354: the characters of one row, in column order
row_line(r) == [c \in 1..cols |-> cell_codepoint(screen[<<r, c - 1>>])]

TextCells ==
    { Cell(<<>>, <<"Default">>, <<"Default">>, FALSE, FALSE, FALSE, FALSE),
      Cell(<<OtherByte>>, <<"Default">>, <<"Default">>, FALSE, FALSE, FALSE, FALSE),
      Cell(<<160>>, <<"Default">>, <<"Default">>, FALSE, FALSE, FALSE, FALSE) }

InitText ==
    /\ MainIdle /\ EmuIdle /\ FilterIdle /\ ColorIdle
    /\ rows \in 0..MaxTextRows
    /\ cols \in 0..MaxTextCols
    /\ screen \in [Positions(rows, cols) -> TextCells]
    /\ row = 0 /\ col = 0 /\ printed = <<>> /\ ppc = "text"

\* lines 348-357: one iteration of the outer loop; println! ends the line
PrintTextRow ==
    /\ ppc = "text"
    /\ row < rows
    /\ printed' = printed \o trim_end(row_line(row)) \o <<LF>>
    /\ row' = row + 1
    /\ UNCHANGED <<ctlVars, cfgVars, childVars, inVars, timeVars, readerVars,
                   outVars, histVars, emu, data, res1, res2, ppc, idx, rgb, overflow,
                   rows, cols, screen, col>>

\* line 348: the loop is over
PrintTextDone ==
    /\ ppc = "text"
    /\ row >= rows
    /\ ppc' = "text_done"
    /\ UNCHANGED <<ctlVars, cfgVars, childVars, inVars, timeVars, readerVars,
                   outVars, histVars, emu, data, res1, res2, idx, rgb, overflow, rows,
                   cols, screen, row, col, printed>>

NextText == PrintTextRow \/ PrintTextDone

SpecText == InitText /\ [][NextText]_vars

(***************************************************************************)
(* The terminal emulator behind parser.process (line 274), as section 4.2  *)
(* of the specification describes it: a state machine over ground, escape, *)
(* csi and osc that writes printable bytes at the cursor with the active   *)
(* style.  emu is [mode, params, cur, fg, bg, bold, italic, underline,     *)
(* inverse, row, col, pos]: the parser mode, the CSI parameters collected, *)
(* the parameter being collected, the active style, the cursor and the     *)
(* number of bytes processed.  Of the CSI dispatches only SGR is modelled; *)
(* the inputs hold no other final byte and no single-character escape.     *)
(***************************************************************************)
EmptyCell == Cell(<<>>, <<"Default">>, <<"Default">>, FALSE, FALSE, FALSE, FALSE)

FreshEmu ==
    [mode |-> "ground", params |-> <<>>, cur |-> 0,
     fg |-> <<"Default">>, bg |-> <<"Default">>,
     bold |-> FALSE, italic |-> FALSE, underline |-> FALSE, inverse |-> FALSE,
     row |-> 0, col |-> 0, pos |-> 0]

\* SGR: the parameter codes 0, 1, 3, 4, 7, 22-27, 30-39, 40-49, 90-97,
\* 100-107 and the extended forms 38;5;n, 38;2;r;g;b, 48;5;n, 48;2;r;g;b
\* update the active style; a malformed extended form is discarded.
RECURSIVE apply_sgr(_, _)
apply_sgr(e, ps) ==
    IF ps = <<>> THEN e
    ELSE LET p == Head(ps)
             rest == Tail(ps)
         IN  IF p = 0
             THEN apply_sgr([e EXCEPT !.fg = <<"Default">>, !.bg = <<"Default">>,
                                      !.bold = FALSE, !.italic = FALSE,
                                      !.underline = FALSE, !.inverse = FALSE], rest)
             ELSE IF p = 1 THEN apply_sgr([e EXCEPT !.bold = TRUE], rest)
             ELSE IF p = 3 THEN apply_sgr([e EXCEPT !.italic = TRUE], rest)
             ELSE IF p = 4 THEN apply_sgr([e EXCEPT !.underline = TRUE], rest)
             ELSE IF p = 7 THEN apply_sgr([e EXCEPT !.inverse = TRUE], rest)
             ELSE IF p = 22 THEN apply_sgr([e EXCEPT !.bold = FALSE], rest)
             ELSE IF p = 23 THEN apply_sgr([e EXCEPT !.italic = FALSE], rest)
             ELSE IF p = 24 THEN apply_sgr([e EXCEPT !.underline = FALSE], rest)
             ELSE IF p = 27 THEN apply_sgr([e EXCEPT !.inverse = FALSE], rest)
             ELSE IF p \in 30..37 THEN apply_sgr([e EXCEPT !.fg = <<"Idx", p - 30>>], rest)
             ELSE IF p = 39 THEN apply_sgr([e EXCEPT !.fg = <<"Default">>], rest)
             ELSE IF p \in 40..47 THEN apply_sgr([e EXCEPT !.bg = <<"Idx", p - 40>>], rest)
             ELSE IF p = 49 THEN apply_sgr([e EXCEPT !.bg = <<"Default">>], rest)
             ELSE IF p \in 90..97 THEN apply_sgr([e EXCEPT !.fg = <<"Idx", p - 90 + 8>>], rest)
             ELSE IF p \in 100..107 THEN apply_sgr([e EXCEPT !.bg = <<"Idx", p - 100 + 8>>], rest)
             ELSE IF p \in {38, 48}
             THEN LET which == IF p = 38 THEN "fg" ELSE "bg"
                  IN  IF Len(rest) >= 2 /\ rest[1] = 5 /\ rest[2] \in 0..255
                      THEN apply_sgr([e EXCEPT ![which] = <<"Idx", rest[2]>>],
                                     SubSeq(rest, 3, Len(rest)))
                      ELSE IF Len(rest) >= 4 /\ rest[1] = 2
                              /\ \A i \in 2..4 : rest[i] \in 0..255
                      THEN apply_sgr([e EXCEPT ![which] = <<"Rgb", rest[2], rest[3], rest[4]>>],
                                     SubSeq(rest, 5, Len(rest)))
                      ELSE e
             ELSE apply_sgr(e, rest)

\* The grid scrolled up by one row: the top row is dropped, the last is empty.
scroll_up(scr) ==
    [p \in Positions(rows, cols) |->
        IF p[1] + 1 < rows THEN scr[<<p[1] + 1, p[2]>>] ELSE EmptyCell]

\* The cursor down one row on the screen scr, scrolling at the last row.
line_feed(e, scr) ==
    IF e.row + 1 < rows
    THEN [emu |-> [e EXCEPT !.row = @ + 1], screen |-> scr]
    ELSE [emu |-> e, screen |-> scroll_up(scr)]

\* A printable byte in ground: written at the cursor with the active style,
\* then the cursor advances one column and wraps past the last column.
print_byte(e, b) ==
    LET scr == [screen EXCEPT ![<<e.row, e.col>>] =
                   Cell(<<b>>, e.fg, e.bg, e.bold, e.italic, e.underline, e.inverse)]
    IN  IF e.col + 1 < cols
        THEN [emu |-> [e EXCEPT !.col = @ + 1], screen |-> scr]
        ELSE line_feed([e EXCEPT !.col = 0], scr)

\* One byte b through the state machine, from the state e.
emu_step(e, b) ==
    LET same(x) == [emu |-> x, screen |-> screen]
    IN  CASE e.mode = "ground" ->
               IF b = ESC THEN same([e EXCEPT !.mode = "escape"])
               ELSE IF b = CR THEN same([e EXCEPT !.col = 0])
               ELSE IF b = LF THEN line_feed(e, screen)
               ELSE IF b \in 32..126 THEN print_byte(e, b)
               ELSE same(e)
          [] e.mode = "escape" ->
               IF b = 91
               THEN same([e EXCEPT !.mode = "csi", !.params = <<>>, !.cur = 0])
               ELSE IF b = RBRACKET THEN same([e EXCEPT !.mode = "osc"])
               ELSE same([e EXCEPT !.mode = "ground"])
          [] e.mode = "csi" ->
               IF b \in 48..57 THEN same([e EXCEPT !.cur = @ * 10 + (b - 48)])
               ELSE IF b = 59
               THEN same([e EXCEPT !.params = Append(@, e.cur), !.cur = 0])
               ELSE IF b = 109
               THEN same(apply_sgr([e EXCEPT !.mode = "ground", !.params = <<>>,
                                             !.cur = 0],
                                   Append(e.params, e.cur)))
               ELSE same([e EXCEPT !.mode = "ground", !.params = <<>>, !.cur = 0])
          [] e.mode = "osc" ->
               IF b = BEL THEN same([e EXCEPT !.mode = "ground"])
               ELSE IF b = ESC THEN same([e EXCEPT !.mode = "osc_esc"])
               ELSE same(e)
          [] e.mode = "osc_esc" ->
               IF b = BACKSLASH THEN same([e EXCEPT !.mode = "ground"])
               ELSE IF b = ESC THEN same(e)
               ELSE same([e EXCEPT !.mode = "osc"])

\* ESC [ 1 ; 3 1 m
SgrBoldRed == <<ESC, 91, 49, 59, 51, 49, 109>>

\* the SGR above, "X", ESC [ m, CR, LF, an empty OSC and ESC [ 4 8 ; 5 ; 9 m
EmuTokens ==
    { SgrBoldRed, <<88>>, <<ESC, 91, 109>>, <<CR>>, <<LF>>,
      <<ESC, RBRACKET, BEL>>, <<ESC, 91, 52, 56, 59, 53, 59, 57, 109>> }

\* line 162: vt100::Parser::new(rows, cols, 0), a fresh screen; the bytes
\* are up to MaxTokens of the tokens
InitEmu ==
    /\ MainIdle /\ ColorIdle
    /\ res1 = <<>> /\ res2 = <<>> /\ idx = 0
    /\ \E tokens \in SeqsUpTo(EmuTokens, MaxTokens) : data = Concat(tokens)
    /\ rows \in 1..MaxRows
    /\ cols \in 2..MaxCols
    /\ screen = [p \in Positions(rows, cols) |-> EmptyCell]
    /\ row = 0 /\ col = 0 /\ printed = <<>>
    /\ emu = FreshEmu
    /\ ppc = "emu"

\* line 274: parser.process(&filtered), a byte at a time
EmuByte ==
    /\ ppc = "emu"
    /\ emu.pos < Len(data)
    /\ LET next == emu_step([emu EXCEPT !.pos = @ + 1], data[emu.pos + 1])
       IN  emu' = next.emu /\ screen' = next.screen
    /\ UNCHANGED <<ctlVars, cfgVars, childVars, inVars, timeVars, readerVars,
                   outVars, histVars, data, res1, res2, ppc, idx, rgb, overflow,
                   rows, cols, row, col, printed>>

\* lines 274-278: every byte is processed; the hex format prints the screen
EmuDone ==
    /\ ppc = "emu"
    /\ emu.pos = Len(data)
    /\ ppc' = "hex"
    /\ UNCHANGED <<ctlVars, cfgVars, childVars, inVars, timeVars, readerVars,
                   outVars, histVars, emu, data, res1, res2, idx, rgb, overflow,
                   rows, cols, screen, row, col, printed>>

NextEmu == EmuByte \/ EmuDone \/ PrintHexCell \/ PrintHexDone

SpecEmu == InitEmu /\ [][NextEmu]_vars

(***************************************************************************)
(* Properties of the capture pipeline.                                     *)
(***************************************************************************)
AfterWaitLoop ==
    pc \in {"grace", "grace_sleep", "collect_init", "collect_check",
            "collect_recv", "collect_sleep", "drop", "filter", "process",
            "print", "exit", "exited"}

\* The program run never exits by itself and the PTY delivers no output.
NeverExitsSilent == ~willExit /\ stream = <<>>

\* C1 as stated: for a child that never exits and never writes, the wait loop
\* is left by observing elapsed > timeout and killing the child.
C1_LoopLeftByKill ==
    NeverExitsSilent /\ AfterWaitLoop
        => loopExit = "timeout" /\ kills = 1 /\ child = "killed"

\* C1, amended: for a child that never exits and never writes, the wait loop
\* is left either by a poll that saw elapsed > timeout and a kill of the
\* child, or by a poll whose try_wait returned an error (then without a
\* kill); from the wait loop the run always goes on to exit with code 0 and
\* an empty capture.
C1_TimeoutEndsWait ==
    /\ [](NeverExitsSilent /\ AfterWaitLoop
            => \/ /\ loopExit = "timeout" /\ kills = 1 /\ child = "killed"
               \/ /\ loopExit = "error" /\ kills = 0 /\ child = "running")
    /\ [](pc = "kill" => elapsed > timeout /\ kills = 0)
    /\ (NeverExitsSilent /\ pc = "poll")
          ~> (pc = "exited" /\ exitCode = 0 /\ output = <<>>)

C1_Witness ==
    /\ NeverExitsSilent /\ pc = "exited" /\ exitCode = 0
    /\ loopExit = "timeout" /\ child = "killed" /\ timeout > 0

\* C2 as stated: once the reader thread is spawned, the main flow reaches the
\* explicit process exit, whatever the reader thread does.
C2_MainReachesExit == (rpc # "idle") ~> (pc = "exited")

\* C3: the capture buffer, and the capture buffer followed by the chunks
\* still in the channel, are prefixes of the concatenation in read order of
\* the chunks the reader has read, which is the part of the stream read so
\* far; the filter gets the capture buffer and the emulator the filter's
\* result, in that order.
C3_CaptureInOrder ==
    /\ readLog = SubSeq(stream, 1, rpos)
    /\ IsPrefix(output \o Concat(chan), readLog)
    /\ pc \in {"process", "print", "exit", "exited"}
          => filtered = filter_osc_sequences(output)
    /\ pc \in {"print", "exit", "exited"} => parserInput = filtered

C3_Witness ==
    /\ pc = "collect_check"
    /\ output = <<ESC>>
    /\ chan = << <<RBRACKET>> >>

\* C9 as stated: no run is aborted because an input file could not be read
\* once the child is spawned (or bytes are written to it).
C9_AbortBeforeSpawn ==
    cause \in {"kb_read", "stdin_read"} => child = "none" /\ written = <<>>

\* C10 as stated: no run is aborted by a failed write to the PTY or by a read
\* error of the reader thread.
C10_IoNeverFatal ==
    pc = "aborted" => cause \notin {"stdin_write", "kb_write", "reader"}

\* The chunks try_recv returned, concatenated in the order of their receipt.
TakenBytes == Concat([i \in 1..Len(taken) |-> taken[i].bytes])

\* C11 as stated: with the raw format the bytes written to stdout are the
\* capture buffer as concatenated from the channel, unfiltered, and the
\* terminal emulator is not fed the capture.
C11_RawBypassesEmulator ==
    format = "raw" /\ pc \in {"exit", "exited"}
        => stdout = <<"raw", output>> /\ output = TakenBytes /\ parserInput = <<>>

\* C11, amended: with the raw format the bytes written to stdout are the
\* capture buffer as concatenated from the channel, unfiltered; the terminal
\* emulator has nevertheless been fed the OSC-filtered capture before the
\* format was looked at, only its screen is not printed.
C11_RawIsCapture ==
    format = "raw" /\ pc \in {"exit", "exited"}
        => /\ stdout = <<"raw", output>>
           /\ output = TakenBytes
           /\ parserInput = filter_osc_sequences(output)

C11_Witness ==
    /\ format = "raw" /\ pc = "exited"
    /\ output = <<ESC, RBRACKET>> /\ filtered = <<>>
    /\ stdout = <<"raw", <<ESC, RBRACKET>>>>

\* C14 as stated: the wait loop is left only when a poll reported the exit
\* of the child or when the timeout elapsed and the child was killed, so
\* after the loop the child has exited or has been sent a kill.
C14_ExitedOrKilled ==
    AfterWaitLoop
        => /\ loopExit \in {"exited", "timeout"}
           /\ child = "exited" \/ kills >= 1

\* C14, amended: the wait loop is left only when a poll reported the exit
\* of the child, or when a poll saw the timeout exceeded and the child was
\* sent a kill, or when a poll failed with an error; after the loop the
\* child has exited, or has been sent a kill, or its last poll failed (it
\* may then still run, with no kill sent); before that the loop is not left
\* and no kill is sent.
C14_HowLoopIsLeft ==
    /\ AfterWaitLoop
          => \/ loopExit = "exited" /\ child = "exited" /\ kills = 0
             \/ loopExit = "timeout" /\ kills = 1 /\ child \in {"killed", "exited"}
             \/ loopExit = "error" /\ kills = 0
    /\ ~AfterWaitLoop /\ cause # "stdout_write" => loopExit = "none" /\ kills = 0

C14_Witness ==
    /\ pc = "grace" /\ loopExit = "timeout" /\ kills = 1 /\ child = "killed"
    /\ ~willExit

\* C15: the child is killed at most once in a run, and only by the step that
\* follows a poll which reported it still running with the elapsed time
\* strictly greater than the timeout; a child whose exit a poll observed is
\* never killed, and no kill is sent while the elapsed time is within the
\* timeout.
C15_KillOnceAfterTimeout ==
    /\ [][kills' # kills => /\ kills = 0 /\ kills' = 1
                            /\ pc = "kill" /\ loopExit = "none"
                            /\ elapsed > timeout]_vars
    /\ [][pc' = "kill" /\ pc # "kill"
            => pc = "poll" /\ child = "running" /\ elapsed > timeout]_vars
    /\ [](kills <= 1)
    /\ [](loopExit = "exited" => kills = 0)
    /\ [](kills = 1 => started /\ loopExit = "timeout")

C15_Witness ==
    /\ pc = "collect_init" /\ kills = 1 /\ child = "killed" /\ timeout = 100

InCollectLoop == pc \in {"collect_check", "collect_recv", "collect_sleep"}

\* The number of chunks in the capture buffer that the reader sent after
\* collect_deadline.
LateTaken == Cardinality({i \in 1..Len(taken) : taken[i].late})

\* C17 as stated: a chunk the reader forwards after the deadline is never
\* part of the capture buffer.
C17_NoLateChunk == LateTaken = 0

\* C17, amended: the drain starts only when the grace sleep after the wait
\* loop is over; a chunk is taken only by the try_recv of an iteration
\* whose test found the time before the deadline, so a chunk forwarded
\* after the deadline can still be taken when it is forwarded between that
\* test and that try_recv, but at most one such chunk in a run; and the
\* drain loop always ends.
C17_DrainIsBounded ==
    /\ [][pc' = "collect_init" /\ pc # "collect_init"
            => pc = "grace_sleep" /\ sleepLeft = 0]_vars
    /\ [][pc' = "collect_recv" /\ pc # "collect_recv"
            => pc = "collect_check" /\ collectLeft > 0]_vars
    /\ [][output' # output /\ pc # "collect_init"
            => pc = "collect_recv" /\ pc' = "collect_check"]_vars
    /\ [](LateTaken <= 1)
    /\ [](pc = "grace_sleep" => AfterWaitLoop /\ output = <<>>)
    /\ InCollectLoop ~> ~InCollectLoop

C17_Witness ==
    /\ pc = "filter" /\ collectLeft = 0
    /\ Len(taken) = 1 /\ ~taken[1].late
    /\ chanLate = <<TRUE>>

AfterCollectLoop == pc \in {"drop", "filter", "process", "print", "exit", "exited"}

\* C18: when the collect loop is left because try_recv reported the channel
\* disconnected, the reader thread is done, the channel is empty and the
\* capture buffer is the concatenation of every chunk the reader sent; and
\* after the loop, whenever the reader is done and the channel empty, no
\* chunk it sent is missing from the capture buffer.
C18_DisconnectedIsComplete ==
    /\ [][pc = "collect_recv" /\ pc' = "drop"
            => /\ rpc' = "done" /\ chan' = <<>>
               /\ output' = sentLog' /\ TakenBytes' = sentLog']_vars
    /\ [](AfterCollectLoop /\ rpc = "done" /\ chan = <<>> => output = sentLog)
    /\ [](IsPrefix(sentLog, readLog))

C18_Witness ==
    /\ pc = "drop" /\ collectLeft > 0 /\ rpc = "done"
    /\ Len(taken) = 2 /\ output = sentLog /\ output = stream

\* C19: the PTY is written only by the stdin step and the keyboard step:
\* the stdin step comes first and writes the normalized stdin bytes, all of
\* them when it succeeds; the settle sleep follows; the keyboard step comes
\* after the settle sleep and appends the normalized keyboard bytes, all of
\* them when it succeeds; nothing is written once the wait loop has
\* started; the bytes written are normalized only, never OSC-filtered; the
\* filter is computed from the capture buffer only, and the emulator gets
\* exactly filter_osc_sequences(output).
C19_ScriptedInputOrder ==
    /\ [][written' # written
            => \/ /\ pc = "stdin_write" /\ written = <<>>
                  /\ IsPrefix(written', normalize_line_endings(stdin_content[1]))
               \/ /\ pc = "kb_write"
                  /\ \E k \in 1..Len(normalize_line_endings(keyboard_input[1])) :
                        written' = written
                           \o SubSeq(normalize_line_endings(keyboard_input[1]), 1, k)]_vars
    /\ [][pc = "stdin_write" /\ pc' = "settle"
            => written' = normalize_line_endings(stdin_content[1])]_vars
    /\ [][pc = "kb_write" /\ pc' = "start" /\ keyboard_input # <<>>
            => written' = written \o normalize_line_endings(keyboard_input[1])]_vars
    /\ [][pc' = "settle" /\ pc # "settle" => pc \in {"stdin_read", "stdin_write"}]_vars
    /\ [][pc' = "kb_write" /\ pc # "kb_write"
            => pc = "settle_sleep" /\ sleepLeft = 0]_vars
    /\ [][pc' = "poll" /\ ~started => pc = "start" /\ keyboard_input = <<>>]_vars
    /\ [][started => written' = written]_vars
    /\ [][filtered' # filtered
            => pc = "filter" /\ filtered' = filter_osc_sequences(output)]_vars
    /\ [](pc \in {"print", "exit", "exited"}
            => parserInput = filter_osc_sequences(output))

C19_Witness ==
    /\ pc = "poll" /\ started
    /\ written = <<ESC, RBRACKET, CR, LF, ESC, RBRACKET, CR, LF>>

\* C20: however the reader split the stream into chunks, the chunks taken
\* make up, in order, the first bytes of the stream, and the filter's
\* result is what filter_osc_sequences gives for those bytes as one
\* sequence: an ESC ] that straddles two chunks is removed as in one chunk.
C20_FilterIgnoresChunking ==
    pc \in {"process", "print", "exit", "exited"}
        => /\ TakenBytes = SubSeq(stream, 1, Len(TakenBytes))
           /\ filtered = filter_osc_sequences(SubSeq(stream, 1, Len(TakenBytes)))

C20_Witness ==
    /\ pc = "process" /\ stream = <<ESC, RBRACKET>>
    /\ Len(taken) = 2 /\ taken[1].bytes = <<ESC>> /\ taken[2].bytes = <<RBRACKET>>
    /\ filtered = <<>>

(***************************************************************************)
(* Properties of normalize_line_endings.                                   *)
(***************************************************************************)
\* C4: normalize_line_endings applied to its own result changes nothing.
C4_Idempotent == ppc = "twice" => res2 = res1

C4_Witness == ppc = "twice" /\ Len(res1) > Len(data) /\ CR \in {data[i] : i \in 1..Len(data)}

\* An LF that is the first byte or follows a byte other than CR.
LoneLF(x, i) == x[i] = LF /\ (i = 1 \/ x[i - 1] # CR)

\* x with a CR put before each lone LF.
CRBeforeLoneLF(x) ==
    Concat([i \in 1..Len(x) |-> IF LoneLF(x, i) THEN <<CR, LF>> ELSE <<x[i]>>])

\* C5: the result is the input with a CR inserted before exactly the lone
\* LFs, so it is longer by the number of lone LFs and each of its LFs
\* follows a CR.
C5_InsertsCR ==
    ppc \in {"once", "twice"} =>
        /\ res1 = CRBeforeLoneLF(data)
        /\ Len(res1) = Len(data) + Cardinality({i \in 1..Len(data) : LoneLF(data, i)})
        /\ \A i \in 1..Len(res1) : res1[i] = LF => i > 1 /\ res1[i - 1] = CR

C5_Witness == ppc = "once" /\ data = <<LF, CR, LF, CR>> /\ res1 = <<CR, LF, CR, LF, CR>>

(***************************************************************************)
(* Properties of filter_osc_sequences.                                     *)
(***************************************************************************)
SetMin(S) == CHOOSE m \in S : \A k \in S : m <= k
SetMax(S) == CHOOSE m \in S : \A k \in S : m >= k

\* Where an ESC ] begins at or after from.
OscStarts(x, from) ==
    {s \in from..(Len(x) - 1) : x[s] = ESC /\ x[s + 1] = RBRACKET}

\* Where a BEL or an ESC \ begins at or after from.
OscTerminators(x, from) ==
    {e \in from..Len(x) :
        \/ x[e] = BEL
        \/ e + 1 <= Len(x) /\ x[e] = ESC /\ x[e + 1] = BACKSLASH}

\* x from index from on, without the spans from an ESC ] through the first
\* terminator after it (or the end of x).
RECURSIVE WithoutOscSpans(_, _)
WithoutOscSpans(x, from) ==
    IF OscStarts(x, from) = {} THEN SubSeq(x, from, Len(x))
    ELSE LET s == SetMin(OscStarts(x, from))
             T == OscTerminators(x, s + 2)
         IN  SubSeq(x, from, s - 1) \o
             (IF T = {} THEN <<>>
              ELSE LET e == SetMin(T)
                   IN  WithoutOscSpans(x, IF x[e] = BEL THEN e + 1 ELSE e + 2))

\* ESC ] "0;title" BEL "A"
TitleThenA == <<ESC, RBRACKET, 48, 59, 116, 105, 116, 108, 101, BEL, 65>>

\* C6: the result is the input without its OSC spans, each from ESC ] through
\* the first BEL or ESC \ after it or, with no terminator, the end of input;
\* ESC ] "0;title" BEL "A" gives "A".
C6_RemovesOscSpans ==
    /\ ppc \in {"once", "twice"} => res1 = WithoutOscSpans(data, 1)
    /\ filter_osc_sequences(TitleThenA) = <<65>>

C6_Witness ==
    /\ ppc = "once"
    /\ data = <<ESC, RBRACKET, ESC, BACKSLASH, OtherByte>>
    /\ res1 = <<OtherByte>>

(***************************************************************************)
(* Properties of ansi_to_rgb.                                              *)
(***************************************************************************)
\* The mapping in unbounded integers.
CubeLevel(c) == IF c = 0 THEN 0 ELSE 55 + 40 * c

ReferenceRgb(i) ==
    IF i <= 15 THEN Palette16[i + 1]
    ELSE IF i <= 231
    THEN <<CubeLevel(((i - 16) \div 36) % 6), CubeLevel(((i - 16) \div 6) % 6),
           CubeLevel((i - 16) % 6)>>
    ELSE <<8 + (i - 232) * 10, 8 + (i - 232) * 10, 8 + (i - 232) * 10>>

\* C8: for every index the result is the reference mapping and no u8
\* operation overflows; 1, 9, 196 and 244 give the triples of the spec.
C8_AnsiToRgb ==
    ppc = "rgb_done" =>
        /\ rgb = ReferenceRgb(idx)
        /\ ~overflow
        /\ \A k \in 1..3 : FitsU8(rgb[k])
        /\ idx = 1 => rgb = <<205, 49, 49>>
        /\ idx = 9 => rgb = <<241, 76, 76>>
        /\ idx = 196 => rgb = <<255, 0, 0>>
        /\ idx = 244 => rgb = <<128, 128, 128>>

C8_Witness == ppc = "rgb_done" /\ idx = 231 /\ rgb = <<255, 255, 255>>

(***************************************************************************)
(* Properties of print_hex_state.                                          *)
(***************************************************************************)
HexDigitValue(ch) == CHOOSE d \in 0..15 : HexDigits[d + 1] = ch

IsUpperHex(text) == \A i \in 1..Len(text) : \E d \in 0..15 : HexDigits[d + 1] = text[i]

RECURSIVE HexValue(_)
HexValue(text) ==
    IF text = <<>> THEN 0
    ELSE 16 * HexValue(SubSeq(text, 1, Len(text) - 1))
         + HexDigitValue(text[Len(text)])

CellWidth == 22

\* The 22 characters printed for the k-th cell (from 0) in row-major order.
Group(k) == SubSeq(printed, CellWidth * k + 1, CellWidth * k + CellWidth)

Field(k, from, to) == HexValue(SubSeq(Group(k), from, to))

GroupEncodes(k, cell) ==
    LET fg == resolve_color(cell.fg, DefaultFg)
        bg == resolve_color(cell.bg, DefaultBg)
    IN  /\ IsUpperHex(Group(k))
        /\ Field(k, 1, 8) = cell_codepoint(cell)
        /\ <<Field(k, 9, 10), Field(k, 11, 12), Field(k, 13, 14)>> = fg
        /\ <<Field(k, 15, 16), Field(k, 17, 18), Field(k, 19, 20)>> = bg
        /\ Field(k, 21, 22) = cell_attrs(cell)

\* C7: after each cell the text holds 22 characters per cell printed, at the
\* end rows * cols * 22 (44000 for 25 x 80), and the k-th group of 22 is the
\* cell's code point in 8 upper-case hex digits, its foreground and
\* background RGB in 6 each and its attribute byte in 2.
C7_HexLayout ==
    /\ ppc = "hex" => Len(printed) = CellWidth * (row * cols + col)
    /\ ppc = "hex_done" =>
          /\ Len(printed) = rows * cols * CellWidth
          /\ rows = DefaultRows /\ cols = DefaultCols => Len(printed) = 44000
          /\ \A p \in Positions(rows, cols) :
                GroupEncodes(p[1] * cols + p[2], screen[p])

C7_Witness ==
    /\ ppc = "hex_done" /\ rows = 2 /\ cols = 2
    /\ screen[<<0, 0>>] = SampleCells[2]
    /\ screen[<<1, 1>>] = SampleCells[5]
    /\ Len(printed) = 88
    /\ SubSeq(printed, 1, 22) =
          <<"0", "0", "0", "0", "0", "0", "5", "8", "C", "D", "3", "1", "3", "1",
            "0", "0", "0", "0", "0", "0", "0", "1">>

(***************************************************************************)
(* Properties of print_text_state.                                         *)
(***************************************************************************)
\* The lines of a text, each ended by LF.
RECURSIVE TextLines(_)
TextLines(text) ==
    IF text = <<>> THEN <<>>
    ELSE LET ends == {i \in 1..Len(text) : text[i] = LF}
             k == IF ends = {} THEN Len(text) + 1 ELSE SetMin(ends)
         IN  <<SubSeq(text, 1, k - 1)>> \o TextLines(SubSeq(text, k + 1, Len(text)))

\* The character of the cell at row r, column c: a space for an empty cell.
CellChar(r, c) ==
    IF screen[<<r, c>>].contents = <<>> THEN 32 ELSE screen[<<r, c>>].contents[1]

\* The number of columns of row r up to its last character that is not
\* white space.
VisibleWidth(r) ==
    Max(0, SetMax({0} \cup {c \in 1..cols : CellChar(r, c - 1) \notin WhiteSpace}))

\* C12: the text format prints exactly rows lines, top to bottom; line r is
\* the characters of row r in column order, an empty cell as a space, up
\* to the last character that is not white space; so a row holding only a
\* short string prints that string and an untouched row an empty line.
C12_TextLines ==
    ppc = "text_done" =>
        /\ Len(TextLines(printed)) = rows
        /\ Len(printed) > 0 => printed[Len(printed)] = LF
        /\ \A r \in 0..(rows - 1) :
              /\ TextLines(printed)[r + 1] =
                    [c \in 1..VisibleWidth(r) |-> CellChar(r, c - 1)]
              /\ (\A c \in 0..(cols - 1) : screen[<<r, c>>].contents = <<>>)
                    => TextLines(printed)[r + 1] = <<>>

C12_Witness ==
    /\ ppc = "text_done" /\ rows = 2 /\ cols = 2
    /\ screen[<<0, 0>>].contents = <<OtherByte>>
    /\ \A p \in Positions(rows, cols) \ {<<0, 0>>} : screen[p].contents = <<>>
    /\ printed = <<OtherByte, LF, LF>>

(***************************************************************************)
(* Properties of the emulator and the hex serializer together.             *)
(***************************************************************************)
\* C13: after ESC [ 1 ; 31 m and "X" on a fresh screen the cell at row 0,
\* column 0 holds "X", bold, with foreground Indexed(1) and the default
\* background, every other cell is untouched and the cursor is one column
\* on; the hex format prints that cell as 00000058CD313100000001, so the
\* index becomes (205, 49, 49) in the serializer only.
C13_BoldRedX ==
    emu # <<>> /\ data = SgrBoldRed \o <<88>> /\ ppc \in {"hex", "hex_done"} =>
        /\ screen[<<0, 0>>] =
              Cell(<<88>>, <<"Idx", 1>>, <<"Default">>, TRUE, FALSE, FALSE, FALSE)
        /\ \A p \in Positions(rows, cols) \ {<<0, 0>>} : screen[p] = EmptyCell
        /\ emu.row = 0 /\ emu.col = 1 /\ emu.mode = "ground"
        /\ ppc = "hex_done" =>
              SubSeq(printed, 1, CellWidth) =
                 <<"0", "0", "0", "0", "0", "0", "5", "8", "C", "D", "3", "1",
                   "3", "1", "0", "0", "0", "0", "0", "0", "0", "1">>

C13_Witness ==
    /\ emu # <<>> /\ data = SgrBoldRed \o <<88>> /\ ppc = "hex_done"
    /\ rows = 2 /\ cols = 2
    /\ screen[<<0, 0>>].contents = <<88>> /\ screen[<<0, 0>>].bold
    /\ Len(printed) = 4 * CellWidth

(***************************************************************************)
(* filter_osc_sequences applied to its own result.                         *)
(***************************************************************************)
\* C16 as stated: the result of filter_osc_sequences holds no ESC directly
\* followed by ], and filtering the result again changes nothing.
C16_ResultHasNoOsc ==
    /\ ppc \in {"once", "twice"}
          => \A i \in 1..(Len(res1) - 1) : ~(res1[i] = ESC /\ res1[i + 1] = RBRACKET)
    /\ ppc = "twice" => res2 = res1

=============================================================================
